---- MODULE Spec2Model ----
(***************************************************************************)
(* Model of pielaps/BotTelegram:                                           *)
(*   - the batch summarization pipeline of PostSummarizer                  *)
(*     (src/summarizer.py), and                                            *)
(*   - the newsletter service with its personal scheduler                  *)
(*     (src/newsletter_service.py) and the /scan handler (src/bot.py).     *)
(* One step of the model is one stretch of code between two awaits of the  *)
(* asyncio event loop: such a stretch runs without interleaving.           *)
(***************************************************************************)
EXTENDS Integers, Sequences, FiniteSets, TLC

\* ------------------------------------------------------------------------
\* Bounds of the model
\* ------------------------------------------------------------------------
\* concurrent invocations of summarize_posts_in_batches (SpecRuns only)
MaxRuns == 2
\* length of the list of posts given to a run
MaxPosts == 4
\* the same, when several runs are in progress (SpecRuns)
MaxRunPosts == 2
\* the limiter's size N.  Config.MAX_CONCURRENT_REQUESTS (src/config.py:29)
\* is 6; the model is scaled down so that more batches than slots exist.
MAX_CONCURRENT_REQUESTS == 2

\* calendar dates the clock runs through
MaxDay == 2
\* forced scans (/scan) on one date
MaxForce == 2

Runs == 1..MaxRuns
Channels == {"a", "b"}
\* values of the batch_size argument of summarize_posts_in_batches
BatchSizes == {1, 2}
MaxBatches == MaxPosts
BatchIdx == 1..MaxBatches

\* outcome of one call of the summarization collaborator, as seen by
\* _process_batch_with_ordered_sending: a summary, the placeholder that
\* _summarize_batch returns when the call failed, or an empty string
Summaries == {"summary", "placeholder", "empty"}
NoSummary == "none"
NoTask == <<>>

VARIABLES
    runPc,                  \* per run: "idle", "running", "returned"
    semaphore,              \* per run: free slots of asyncio.Semaphore
    channel_buffers,        \* per run, channel: index -> summary or NoSummary
    channel_next_batch,     \* per run, channel: next expected index
    channel_total_batches,  \* per run, channel: number of batches (0: no posts)
    channel_locks,          \* per run, channel: task holding the lock, or NoTask
    taskPc,                 \* per run, channel, index: position of the task
    taskResult,             \* per run, channel, index: batch_summary of the task
    sink,                   \* per run, channel: indices send_callback returned for
    sendRaised,             \* per run, channel: indices send_callback raised for
    summarizeCalls,         \* per run, channel, index: calls of the collaborator
    taskCurrent,            \* per run, channel, index: the task's local current_batch
    bufferedAhead           \* per run, channel: indices buffered before they were due

VARIABLES
    subscribed_users,       \* NewsletterService.subscribed_users
    subscriber_times,       \* NewsletterService.subscriber_times (NoHour: no key)
    persisted,              \* newsletter_subscribers.json: user -> newsletter_time
                            \* (NoHour: no record)
    sent_today,             \* NewsletterService.sent_today
    daily_posts_cache,      \* NewsletterService.daily_posts_cache
    last_scan_date,         \* NewsletterService.last_scan_date (NoDate: None)
    now,                    \* the clock, in hours since 00:00 of date 1
    schedPc,                \* start_daily_scheduler: "sleep", "scan", "send"
    wake,                   \* the hour at which the scheduler's sleep ends
    cycStart,               \* current_time of the scheduler's iteration
    cycActive,              \* active_hours of the scheduler's iteration
    cycToday,               \* today of the get_daily_posts call in progress
    cycPosts,               \* posts that get_daily_posts returned to the cycle
    users_to_send,          \* users_to_send of the cycle, not yet served
    fallback,               \* "sleeping": the scheduler is in the sleep of its "except"
                            \* branch; "resumed": in the iteration after it; else "none"
    forcePc,                \* /scan handler: "idle", "scan", "send"
    forceSize,              \* size of subscribed_users when its iteration began
    forceSnapshot,          \* subscribed_users when its iteration began
    forceVisited,           \* users the iteration has yielded
    forceCur,               \* the user the forced send in progress goes to
    received,               \* per user, path: deliveries received on the present date
    forceOn,                \* forced scans in progress at some time of the present date
    scansOn,                \* for the present date: scans made by get_daily_posts
    hitOn,                  \* for the present date: a non-empty scan was cached
    rescansOn               \* for the present date: scans started after such a scan

newsVars == <<subscribed_users, subscriber_times, persisted, sent_today, daily_posts_cache,
              last_scan_date, now, schedPc, wake, cycStart, cycActive, cycToday,
              cycPosts, users_to_send, fallback, forcePc, forceSize, forceSnapshot,
              forceVisited, forceCur, received, forceOn, scansOn, hitOn,
              rescansOn>>

pipeVars == <<runPc, semaphore, channel_buffers, channel_next_batch,
              channel_total_batches, channel_locks, taskPc, taskResult,
              sink, sendRaised, summarizeCalls, taskCurrent, bufferedAhead>>

VARIABLES
    partPc,                 \* partitioning step: "input", "grouped", "cut", "returned"
    partPosts,              \* the posts argument: a list of <<channel, position>>
    partBatchSize,          \* the batch_size argument
    channels_posts,         \* channel -> list of its posts (<<>>: no key)
    batches                 \* channel -> the list "batches" built for it

partVars == <<partPc, partPosts, partBatchSize, channels_posts, batches>>

VARIABLES
    fnPc,                   \* _find_next_active_hour: "input", "returned"
    fnNow,                  \* its argument current_time, in minutes since 00:00 of date 1
    fnActive,               \* its argument active_hours
    fnResult                \* the timestamp it returned, in minutes

fnVars == <<fnPc, fnNow, fnActive, fnResult>>

\* a call of one method of the subscriber store, seen from its caller
VARIABLES
    callOp,                 \* the method called last ("none": no call yet)
    callUser,               \* its user_id
    callHour,               \* its hour (set_user_newsletter_time)
    callOutcome,            \* how bot.send_message ended (_send_newsletter_to_user)
    callResult,             \* what the method returned
    callBefore              \* the store when the method was called

callVars == <<callOp, callUser, callHour, callOutcome, callResult, callBefore>>

\* a call of scan_channels_for_posts
VARIABLES
    scanPc,                 \* "idle", "loop" (between two channels), "returned"
    scanIndex,              \* position of the next channel in standard_channels
    found_posts,            \* the local list found_posts
    fetched                 \* per position: how get_posts ended and what it returned

scanVars == <<scanPc, scanIndex, found_posts, fetched>>

\* a call of split_summary_by_length
VARIABLES
    splitPc,                \* "input", "returned"
    splitSummary,           \* the argument summary, a sequence of characters
    splitMaxLength,         \* the argument max_length
    splitParts              \* the returned list

splitVars == <<splitPc, splitSummary, splitMaxLength, splitParts>>

\* two calls of scan_channels_for_posts in progress on the one ChannelMonitor
VARIABLES
    ovPc,                   \* per scan: "idle", "starting", "loop", "returned"
    ovIndex,                \* per scan: position of the next channel
    ovFound,                \* per scan: its local list found_posts
    ovContent,              \* per position: the posts the channel holds
    monitor_client,         \* ChannelMonitor.client: the scan that created it
    client_connected        \* per created TelegramClient: is it connected

overlapVars == <<ovPc, ovIndex, ovFound, ovContent, monitor_client, client_connected>>

\* the variables of the steps that are checked as functions of their arguments
funVars == <<partVars, fnVars, callVars, scanVars, splitVars, overlapVars>>

vars == <<pipeVars, newsVars, funVars>>

\* ------------------------------------------------------------------------
\* Batch Partitioner (summarize_posts_in_batches, lines 204-208)
\* ------------------------------------------------------------------------
\* len([posts[i:i+batch_size] for i in range(0, len(posts), batch_size)])
BatchCount(nPosts, batch_size) == (nPosts + batch_size - 1) \div batch_size

\* the lists of posts given to the partitioning step: a post is its channel
\* and its position in the input
PostInputs ==
    UNION {{[j \in 1..n |-> <<f[j], j>>] : f \in [1..n -> Channels]} : n \in 0..MaxPosts}

\* before the call (the specifications of the other parts stay here)
InitPartIdle ==
    /\ partPc = "input"
    /\ partPosts = <<>>
    /\ partBatchSize = 1
    /\ channels_posts = [c \in Channels |-> <<>>]
    /\ batches = [c \in Channels |-> <<>>]

\* a call of summarize_posts_in_batches with its arguments
InitPartition ==
    /\ partPc = "input"
    /\ partPosts \in PostInputs
    /\ partBatchSize \in BatchSizes
    /\ channels_posts = [c \in Channels |-> <<>>]
    /\ batches = [c \in Channels |-> <<>>]

\* "for post in posts: ... channels_posts[channel].append(post)"
RECURSIVE GroupPosts(_, _)
GroupPosts(rest, acc) ==
    IF rest = <<>>
    THEN acc
    ELSE GroupPosts(Tail(rest), [acc EXCEPT ![Head(rest)[1]] = Append(@, Head(rest))])

\* a slice that takes one post more than it should
SliceOneMore(list, i, j) ==
    SubSeq(list, i + 1, IF j + 1 <= Len(list) THEN j + 1 ELSE Len(list))

\* the slice list[i:j] of Python, 0 <= i <= j
Slice(list, i, j) ==
    SubSeq(list, i + 1, IF j <= Len(list) THEN j ELSE Len(list))

\* range(0, len(channel_posts), batch_size), in increasing order
RangeStarts(n, step) ==
    LET starts == {i \in 0..(n - 1) : i % step = 0}
    IN [k \in 1..Cardinality(starts) |-> (k - 1) * step]

\* [channel_posts[i:i + batch_size] for i in range(0, len(channel_posts), batch_size)]
CutBatches(channel_posts, size) ==
    LET starts == RangeStarts(Len(channel_posts), size)
    IN [k \in 1..Len(starts) |-> Slice(channel_posts, starts[k], starts[k] + size)]

\* "if not posts: return", else the grouping loop
PartGroup ==
    /\ partPc = "input"
    /\ IF partPosts = <<>>
       THEN /\ partPc' = "returned"
            /\ UNCHANGED channels_posts
       ELSE /\ partPc' = "grouped"
            /\ channels_posts' = GroupPosts(partPosts, [c \in Channels |-> <<>>])
    /\ UNCHANGED <<partPosts, partBatchSize, batches>>

\* the loop over channels_posts.items() that builds the batches
PartCut ==
    /\ partPc = "grouped"
    /\ partPc' = "cut"
    /\ batches' = [c \in Channels |-> CutBatches(channels_posts[c], partBatchSize)]
    /\ UNCHANGED <<partPosts, partBatchSize, channels_posts>>

\* ------------------------------------------------------------------------
\* Pipeline
\* ------------------------------------------------------------------------
InitPipe ==
    /\ runPc = [r \in Runs |-> "idle"]
    /\ semaphore = [r \in Runs |-> 0]
    /\ channel_buffers = [r \in Runs |-> [c \in Channels |-> [i \in BatchIdx |-> NoSummary]]]
    /\ channel_next_batch = [r \in Runs |-> [c \in Channels |-> 0]]
    /\ channel_total_batches = [r \in Runs |-> [c \in Channels |-> 0]]
    /\ channel_locks = [r \in Runs |-> [c \in Channels |-> NoTask]]
    /\ taskPc = [r \in Runs |-> [c \in Channels |-> [i \in BatchIdx |-> "absent"]]]
    /\ taskResult = [r \in Runs |-> [c \in Channels |-> [i \in BatchIdx |-> NoSummary]]]
    /\ sink = [r \in Runs |-> [c \in Channels |-> <<>>]]
    /\ sendRaised = [r \in Runs |-> [c \in Channels |-> {}]]
    /\ summarizeCalls = [r \in Runs |-> [c \in Channels |-> [i \in BatchIdx |-> 0]]]
    /\ taskCurrent = [r \in Runs |-> [c \in Channels |-> [i \in BatchIdx |-> 0]]]
    /\ bufferedAhead = [r \in Runs |-> [c \in Channels |-> {}]]

\* a task loop that leaves out the last batch of a channel
TaskCreatedButLast(i, total) == i < total

\* "for batch_idx, batch_posts in enumerate(batches, 1)": one task per batch
TaskCreated(i, total) == i <= total

\* summarize_posts_in_batches up to the gather: groups the posts, creates the
\* semaphore and the per-channel structures and one task per batch.
\* postCount[c] is the number of posts of channel c in the input.
StartRun(r, postCount, batch_size) ==
    /\ runPc[r] = "idle"
    /\ IF \A c \in Channels : postCount[c] = 0
       THEN \* "if not posts: return"
            /\ runPc' = [runPc EXCEPT ![r] = "returned"]
            /\ UNCHANGED <<semaphore, channel_next_batch, channel_total_batches, taskPc>>
       ELSE /\ runPc' = [runPc EXCEPT ![r] = "running"]
            /\ semaphore' = [semaphore EXCEPT ![r] = MAX_CONCURRENT_REQUESTS]
            /\ channel_total_batches' = [channel_total_batches EXCEPT ![r] =
                   [c \in Channels |-> BatchCount(postCount[c], batch_size)]]
            /\ channel_next_batch' = [channel_next_batch EXCEPT ![r] =
                   [c \in Channels |-> IF postCount[c] > 0 THEN 1 ELSE 0]]
            /\ taskPc' = [taskPc EXCEPT ![r] = [c \in Channels |-> [i \in BatchIdx |->
                   IF TaskCreated(i, BatchCount(postCount[c], batch_size))
                   THEN "waiting" ELSE "absent"]]]
    /\ UNCHANGED <<channel_buffers, channel_locks, taskResult, sink, sendRaised,
                   summarizeCalls, taskCurrent, bufferedAhead>>

\* a limiter that never makes a task wait
SemaphoreCanAcquireUnbounded(r) == TRUE

\* "async with semaphore": a waiting task takes a free slot and calls
\* _summarize_batch.
SemaphoreCanAcquire(r) == semaphore[r] > 0

AcquireSemaphore(r, c, i) ==
    /\ taskPc[r][c][i] = "waiting"
    /\ SemaphoreCanAcquire(r)
    /\ semaphore' = [semaphore EXCEPT ![r] = @ - 1]
    /\ taskPc' = [taskPc EXCEPT ![r][c][i] = "summarizing"]
    /\ summarizeCalls' = [summarizeCalls EXCEPT ![r][c][i] = @ + 1]
    /\ UNCHANGED <<runPc, channel_buffers, channel_next_batch, channel_total_batches,
                   channel_locks, taskResult, sink, sendRaised, taskCurrent,
                   bufferedAhead>>

\* a drain loop that stops in front of a failed batch's placeholder
DrainConditionStopsAtFailure(buffer, next, total) ==
    /\ next \in BatchIdx
    /\ buffer[next] \notin {NoSummary, "placeholder"}
    /\ next <= total

\* a drain loop that stops one batch early ("<" for "<=")
DrainConditionStrict(buffer, next, total) ==
    /\ next \in BatchIdx
    /\ buffer[next] # NoSummary
    /\ next < total

\* the condition of the while loop of _buffer_and_send_ordered
DrainCondition(buffer, next, total) ==
    /\ next \in BatchIdx
    /\ buffer[next] # NoSummary
    /\ next <= total

\* a worker that buffers only successful summaries
ShouldBufferSuccessOnly(summary) == summary = "summary"

\* the test "if batch_summary and send_callback" (send_callback is always given)
ShouldBuffer(summary) == summary # "empty"

\* a drain section that is not guarded by the channel's lock
LockFreeAlways(r, c) == TRUE

\* asyncio.Lock: "async with" enters at once when nobody holds the lock
LockFree(r, c) == channel_locks[r][c] = NoTask

\* a task that leaves without giving its limiter slot back
LeaveTaskKeepsSlot(r, c, i, hadLock) ==
    /\ taskPc' = [taskPc EXCEPT ![r][c][i] = "done"]
    /\ semaphore' = semaphore
    /\ channel_locks' = IF hadLock /\ channel_locks[r][c] = <<c, i>>
                        THEN [channel_locks EXCEPT ![r][c] = NoTask]
                        ELSE channel_locks

\* a task that leaves without releasing the channel lock
LeaveTaskKeepsLock(r, c, i, hadLock) ==
    /\ taskPc' = [taskPc EXCEPT ![r][c][i] = "done"]
    /\ semaphore' = [semaphore EXCEPT ![r] = @ + 1]
    /\ channel_locks' = channel_locks

\* the task leaves "async with semaphore" (and the channel lock if it has it)
LeaveTask(r, c, i, hadLock) ==
    /\ taskPc' = [taskPc EXCEPT ![r][c][i] = "done"]
    /\ semaphore' = [semaphore EXCEPT ![r] = @ + 1]
    /\ channel_locks' = IF hadLock /\ channel_locks[r][c] = <<c, i>>
                        THEN [channel_locks EXCEPT ![r][c] = NoTask]
                        ELSE channel_locks

\* _buffer_and_send_ordered from the acquisition of the lock to the first
\* await of send_callback (or to the release of the lock when nothing is due)
EnterDrain(r, c, i, summary) ==
    LET buffer == [channel_buffers[r][c] EXCEPT ![i] = summary] IN
    /\ channel_buffers' = [channel_buffers EXCEPT ![r][c] = buffer]
    /\ bufferedAhead' = IF i > channel_next_batch[r][c]
                        THEN [bufferedAhead EXCEPT ![r][c] = @ \cup {i}]
                        ELSE bufferedAhead
    /\ IF DrainCondition(buffer, channel_next_batch[r][c], channel_total_batches[r][c])
       THEN /\ taskPc' = [taskPc EXCEPT ![r][c][i] = "sending"]
            /\ taskCurrent' = [taskCurrent EXCEPT ![r][c][i] = channel_next_batch[r][c]]
            /\ channel_locks' = [channel_locks EXCEPT ![r][c] = <<c, i>>]
            /\ UNCHANGED semaphore
       ELSE /\ LeaveTask(r, c, i, FALSE)
            /\ UNCHANGED taskCurrent

\* _summarize_batch returns (a summary, or the placeholder of its except
\* branch); the task then buffers the result, waiting for the lock if needed.
SummarizeBatch(r, c, i, summary) ==
    /\ taskPc[r][c][i] = "summarizing"
    /\ taskResult' = [taskResult EXCEPT ![r][c][i] = summary]
    /\ IF ~ShouldBuffer(summary)
       THEN /\ LeaveTask(r, c, i, FALSE)
            /\ UNCHANGED <<channel_buffers, taskCurrent, bufferedAhead>>
       ELSE IF LockFree(r, c)
       THEN EnterDrain(r, c, i, summary)
       ELSE /\ taskPc' = [taskPc EXCEPT ![r][c][i] = "lockwait"]
            /\ UNCHANGED <<semaphore, channel_locks, channel_buffers, taskCurrent,
                           bufferedAhead>>
    /\ UNCHANGED <<runPc, channel_next_batch, channel_total_batches, sink, sendRaised,
                   summarizeCalls>>

\* a task blocked in "async with channel_locks[channel_name]" gets the lock
AcquireLock(r, c, i) ==
    /\ taskPc[r][c][i] = "lockwait"
    /\ LockFree(r, c)
    /\ EnterDrain(r, c, i, taskResult[r][c][i])
    /\ UNCHANGED <<runPc, channel_next_batch, channel_total_batches, taskResult, sink,
                   sendRaised, summarizeCalls>>

\* an index that jumps over a batch after a successful send
NextAfterSendSkips(next) == next + 2

\* the index after a successful send ("channel_next_batch[channel_name] += 1")
NextAfterSend(next) == next + 1

\* a failed send after which the channel goes on to the next index
NextAfterFailureAdvances(next) == next + 1

\* the index after a send that raised ("break" without "+= 1")
NextAfterFailure(next) == next

\* the await of send_callback ends: it returned (ok) or raised
SendCallback(r, c, i, ok) ==
    LET current_batch == taskCurrent[r][c][i] IN
    /\ taskPc[r][c][i] = "sending"
    /\ IF ok
       THEN LET buffer == [channel_buffers[r][c] EXCEPT ![current_batch] = NoSummary]
                next == NextAfterSend(channel_next_batch[r][c])
            IN /\ sink' = [sink EXCEPT ![r][c] =
                      Append(@, <<current_batch, channel_buffers[r][c][current_batch]>>)]
               /\ channel_buffers' = [channel_buffers EXCEPT ![r][c] = buffer]
               /\ channel_next_batch' = [channel_next_batch EXCEPT ![r][c] = next]
               /\ IF DrainCondition(buffer, next, channel_total_batches[r][c])
                  THEN /\ taskCurrent' = [taskCurrent EXCEPT ![r][c][i] = next]
                       /\ UNCHANGED <<taskPc, semaphore, channel_locks>>
                  ELSE /\ LeaveTask(r, c, i, TRUE)
                       /\ UNCHANGED taskCurrent
               /\ UNCHANGED sendRaised
       ELSE \* "except Exception as callback_error: ... break"
            /\ sendRaised' = [sendRaised EXCEPT ![r][c] = @ \cup {current_batch}]
            /\ channel_next_batch' = [channel_next_batch EXCEPT ![r][c] =
                                          NextAfterFailure(@)]
            /\ LeaveTask(r, c, i, TRUE)
            /\ UNCHANGED <<sink, channel_buffers, taskCurrent>>
    /\ UNCHANGED <<runPc, channel_total_batches, taskResult, summarizeCalls,
                   bufferedAhead>>

\* a gather that gives up waiting as soon as one task has failed
GatherDoneOnFailure(r) ==
    \/ \A c \in Channels, i \in BatchIdx : taskPc[r][c][i] \in {"absent", "done"}
    \/ \E c \in Channels, i \in BatchIdx :
          taskPc[r][c][i] = "done" /\ taskResult[r][c][i] = "placeholder"

\* asyncio.gather(*all_batch_tasks, return_exceptions=True) is done when
\* every task has returned
GatherDone(r) ==
    \A c \in Channels, i \in BatchIdx : taskPc[r][c][i] \in {"absent", "done"}

\* asyncio.gather has every task's result: summarize_posts_in_batches returns
RunReturn(r) ==
    /\ runPc[r] = "running"
    /\ GatherDone(r)
    /\ runPc' = [runPc EXCEPT ![r] = "returned"]
    /\ UNCHANGED <<semaphore, channel_buffers, channel_next_batch, channel_total_batches,
                   channel_locks, taskPc, taskResult, sink, sendRaised, summarizeCalls,
                   taskCurrent, bufferedAhead>>

\* the inputs of a run: how many posts of each channel the list holds
PostCounts(maxPosts) ==
    {pc \in [Channels -> 0..maxPosts] : pc["a"] + pc["b"] <= maxPosts}

PipeStep(r, maxPosts) ==
    \/ \E postCount \in PostCounts(maxPosts), batch_size \in BatchSizes :
           StartRun(r, postCount, batch_size)
    \/ \E c \in Channels, i \in BatchIdx : AcquireSemaphore(r, c, i)
    \/ \E c \in Channels, i \in BatchIdx, s \in Summaries : SummarizeBatch(r, c, i, s)
    \/ \E c \in Channels, i \in BatchIdx : AcquireLock(r, c, i)
    \/ \E c \in Channels, i \in BatchIdx, ok \in BOOLEAN : SendCallback(r, c, i, ok)
    \/ RunReturn(r)

\* ------------------------------------------------------------------------
\* Claims about the pipeline
\* ------------------------------------------------------------------------
RECURSIVE SumCalls(_, _, _)
SumCalls(r, c, i) == IF i = 0 THEN 0 ELSE summarizeCalls[r][c][i] + SumCalls(r, c, i - 1)
TotalCalls(r) == SumCalls(r, "a", MaxBatches) + SumCalls(r, "b", MaxBatches)

RECURSIVE Flatten(_)
Flatten(seqs) == IF seqs = <<>> THEN <<>> ELSE Head(seqs) \o Flatten(Tail(seqs))

SinkIndices(r, c) == [j \in 1..Len(sink[r][c]) |-> sink[r][c][j][1]]
UpTo(k) == [j \in 1..k |-> j]
Results(r, c) == {taskResult[r][c][i] : i \in 1..channel_total_batches[r][c]}
Holders(r) == {<<c, i>> \in Channels \X BatchIdx :
                  taskPc[r][c][i] \in {"summarizing", "lockwait", "sending"}}
InFlight == {<<r, c, i>> \in Runs \X Channels \X BatchIdx : taskPc[r][c][i] = "summarizing"}

\* C1: in every state of a run, for every channel, the batch indices for which
\* send_callback has returned are, in call order, 1,2,...,m with m at most the
\* channel's batch count: nothing out of order, skipped or delivered twice.
C1_OrderedDelivery ==
    \A r \in Runs, c \in Channels :
        /\ Len(sink[r][c]) <= channel_total_batches[r][c]
        /\ SinkIndices(r, c) = UpTo(Len(sink[r][c]))

\* a later batch was buffered before it was due, a send raised and was retried
\* by another task, and that task has delivered batches 1 and 2 in one drain
C1_Witness ==
    \E c \in Channels :
        /\ taskPc[1][c][3] = "sending"
        /\ SinkIndices(1, c) = <<1, 2>>
        /\ 1 \in sendRaised[1][c]
        /\ bufferedAhead[1][c] # {}

\* C2: when the run has returned, no send_callback call has raised and no
\* summarization call returned an empty string, the sink has observed exactly
\* 1,2,...,k for every channel with k batches.
C2_CompleteDelivery ==
    \A r \in Runs :
        (/\ runPc[r] = "returned"
         /\ \A c \in Channels : sendRaised[r][c] = {} /\ "empty" \notin Results(r, c))
        => \A c \in Channels : SinkIndices(r, c) = UpTo(channel_total_batches[r][c])

\* a returned run in which batches 2 and 3 of a three-batch channel completed
\* before batch 1 and everything was delivered
C2_Witness ==
    /\ runPc[1] = "returned"
    /\ \A c \in Channels : sendRaised[1][c] = {} /\ "empty" \notin Results(1, c)
    /\ channel_total_batches[1]["a"] = 3
    /\ channel_total_batches[1]["b"] = 1
    /\ bufferedAhead[1]["a"] = {2, 3}
    /\ Len(sink[1]["a"]) = 3
    /\ Len(sink[1]["b"]) = 1

\* C3: within one run at most MAX_CONCURRENT_REQUESTS tasks are between
\* acquiring and releasing the semaphore.
C3_LimiterBound ==
    \A r \in Runs : Cardinality(Holders(r)) <= MAX_CONCURRENT_REQUESTS

\* the limiter is full and another task is kept waiting
C3_Witness ==
    /\ Cardinality(Holders(1)) = MAX_CONCURRENT_REQUESTS
    /\ semaphore[1] = 0
    /\ \E c \in Channels, i \in BatchIdx : taskPc[1][c][i] = "waiting"

C5_FailureIsolation ==
    \A r \in Runs, c \in Channels :
        (/\ runPc[r] = "returned"
         /\ sendRaised[r][c] = {}
         /\ "empty" \notin Results(r, c))
        => sink[r][c] = [j \in 1..channel_total_batches[r][c] |-> <<j, taskResult[r][c][j]>>]

\* batch 2 of 3 of channel a failed; 1, the placeholder and 3 were delivered,
\* and so was batch 1 of channel b
C5_Witness ==
    /\ runPc[1] = "returned"
    /\ sink[1]["a"] = << <<1, "summary">>, <<2, "placeholder">>, <<3, "summary">> >>
    /\ sink[1]["b"] = << <<1, "summary">> >>

\* C6: when the run returns every channel is drained: its buffer is empty and
\* its next expected index is its batch total + 1.  Stated for the runs in
\* which every summarization call returned a non-empty string, so that what
\* is left to decide it is the runs in which send_callback raised.
C6_DrainedOnReturn ==
    \A r \in Runs :
        (/\ runPc[r] = "returned"
         /\ \A c \in Channels : "empty" \notin Results(r, c))
        => \A c \in Channels :
              channel_total_batches[r][c] > 0 =>
                  /\ \A i \in BatchIdx : channel_buffers[r][c][i] = NoSummary
                  /\ channel_next_batch[r][c] = channel_total_batches[r][c] + 1

\* ------------------------------------------------------------------------
\* Newsletter service: subscribers, daily cache, scheduler, forced scan
\* ------------------------------------------------------------------------
Users == {1, 2}
Paths == {"sched", "forced"}
NoHour == 0
NoDate == 0
NoUser == 0
\* subscribe_user, save_subscribers, get_user_newsletter_time: the default hour
DEFAULT_HOUR == 12
\* set_user_newsletter_time, get_active_hours: the range of delivery hours
MIN_HOUR == 9
MAX_HOUR == 20
\* start_daily_scheduler: the sleep after a failed iteration (3600 s), in hours
FALLBACK_SLEEP == 1
\* hours offered to set_user_newsletter_time (one below, one in, one above the range)
HourInputs == {MIN_HOUR - 1, MIN_HOUR, MAX_HOUR + 1}
\* results of scan_channels_for_posts: lists of matched posts
PostLists == {<<>>, <<"p1">>, <<"p2">>}
\* outcomes of bot.send_message: sent, a transient error, "bot was blocked by the user"
SendOutcomes == {"ok", "transient", "blocked"}

\* datetime.now(): the calendar date and the hour of the clock
Date(t) == (t \div 24) + 1
Hour(t) == t % 24
DayStart(t) == (t \div 24) * 24

InitNews ==
    /\ subscribed_users = {}
    /\ subscriber_times = [u \in Users |-> NoHour]
    /\ persisted = [u \in Users |-> NoHour]
    /\ sent_today = {}
    /\ daily_posts_cache = <<>>
    /\ last_scan_date = NoDate
    /\ now = MIN_HOUR - 1
    /\ schedPc = "sleep"
    /\ wake = now
    /\ cycStart = 0
    /\ cycActive = {}
    /\ cycToday = NoDate
    /\ cycPosts = <<>>
    /\ users_to_send = {}
    /\ fallback = "none"
    /\ forcePc = "idle"
    /\ forceSize = 0
    /\ forceSnapshot = {}
    /\ forceVisited = {}
    /\ forceCur = NoUser
    /\ received = [u \in Users |-> [p \in Paths |-> 0]]
    /\ forceOn = 0
    /\ scansOn = 0
    /\ hitOn = FALSE
    /\ rescansOn = 0

schedVars == <<schedPc, wake, cycStart, cycActive, cycToday, cycPosts, users_to_send,
               fallback>>
forceVars == <<forcePc, forceSize, forceSnapshot, forceVisited, forceCur,
               forceOn>>
cacheVars == <<daily_posts_cache, last_scan_date, scansOn, hitOn, rescansOn>>
subVars == <<subscribed_users, subscriber_times, persisted>>

\* a save that leaves the file as it is
save_subscribers_skipped(subs, times) == persisted

\* save_subscribers: the records written for the given subscribers and hours
save_subscribers(subs, times) ==
    [u \in Users |-> IF u \notin subs THEN NoHour
                     ELSE IF times[u] = NoHour THEN DEFAULT_HOUR ELSE times[u]]

\* get_user_newsletter_time: subscriber_times.get(user_id, 12)
get_user_newsletter_time(u) ==
    IF subscriber_times[u] = NoHour THEN DEFAULT_HOUR ELSE subscriber_times[u]

\* get_active_hours
get_active_hours ==
    {get_user_newsletter_time(u) : u \in subscribed_users} \cap MIN_HOUR..MAX_HOUR

\* subscribe_user (called by handle_subscribe_newsletter)
subscribe_user(u) ==
    /\ u \notin subscribed_users
    /\ subscribed_users' = subscribed_users \cup {u}
    /\ subscriber_times' = IF subscriber_times[u] = NoHour
                           THEN [subscriber_times EXCEPT ![u] = DEFAULT_HOUR]
                           ELSE subscriber_times
    /\ persisted' = save_subscribers(subscribed_users', subscriber_times')
    /\ UNCHANGED <<sent_today, now, received, schedVars, forceVars, cacheVars>>

\* unsubscribe_user (called by handle_unsubscribe_newsletter)
unsubscribe_user(u) ==
    /\ u \in subscribed_users
    /\ subscribed_users' = subscribed_users \ {u}
    /\ subscriber_times' = [subscriber_times EXCEPT ![u] = NoHour]
    /\ persisted' = save_subscribers(subscribed_users', subscriber_times')
    /\ UNCHANGED <<sent_today, now, received, schedVars, forceVars, cacheVars>>

\* a set_user_newsletter_time that takes any hour
set_user_newsletter_time_any_hour(u, hour) ==
    /\ u \in subscribed_users
    /\ subscriber_times' = [subscriber_times EXCEPT ![u] = hour]
    /\ persisted' = save_subscribers(subscribed_users, subscriber_times')
    /\ UNCHANGED <<subscribed_users, sent_today, now, received, schedVars, forceVars,
                   cacheVars>>

\* set_user_newsletter_time (called by handle_set_newsletter_time); a call
\* that returns False changes nothing
set_user_newsletter_time(u, hour) ==
    /\ u \in subscribed_users
    /\ MIN_HOUR <= hour /\ hour <= MAX_HOUR
    /\ subscriber_times' = [subscriber_times EXCEPT ![u] = hour]
    /\ persisted' = save_subscribers(subscribed_users, subscriber_times')
    /\ UNCHANGED <<subscribed_users, sent_today, now, received, schedVars, forceVars,
                   cacheVars>>

\* a removal that leaves the subscriber in the set
RemoveBlockedKeeps(subs, u) == subs

\* the removal of a subscriber who blocked the bot (_send_newsletter_to_user)
RemoveBlocked(subs, u) == subs \ {u}

\* _send_newsletter_to_user: bot.send_message to u ended with the outcome
SendToUser(u, path, outcome) ==
    /\ received' = IF outcome = "ok"
                   THEN [received EXCEPT ![u][path] = @ + 1]
                   ELSE received
    /\ IF outcome = "blocked"
       THEN /\ subscribed_users' = RemoveBlocked(subscribed_users, u)
            /\ subscriber_times' = [subscriber_times EXCEPT ![u] = NoHour]
            /\ persisted' = save_subscribers(subscribed_users', subscriber_times')
       ELSE UNCHANGED subVars

\* _find_next_active_hour(current_time, active_hours), as an hour of the clock
find_next_active_hour(current_time, active_hours) ==
    LET current_hour == Hour(current_time)
        today_active_hours == {h \in active_hours :
                                  h > current_hour /\ MIN_HOUR <= h /\ h <= MAX_HOUR}
        Min(S) == CHOOSE m \in S : \A x \in S : m <= x
    IN IF today_active_hours # {}
       THEN DayStart(current_time) + Min(today_active_hours)
       ELSE IF active_hours # {}
       THEN DayStart(current_time) + 24
                + Min({h \in active_hours : MIN_HOUR <= h /\ h <= MAX_HOUR})
       ELSE DayStart(current_time) + 24 + MIN_HOUR

\* datetime with minutes: the minutes of an hour, the hour of a timestamp
MINUTES == 60
HourOfMinute(t) == (t \div MINUTES) % 24

\* the arguments given to _find_next_active_hour: every hour and half hour of
\* date 1, and sets of active hours as get_active_hours returns them
TimeInputs == {h * MINUTES + m : h \in 0..23, m \in {0, 30}}
ActiveInputs == SUBSET {MIN_HOUR, DEFAULT_HOUR, MAX_HOUR}

\* before the call (the specifications of the other parts stay here)
InitNextHourIdle ==
    /\ fnPc = "input"
    /\ fnNow = 0
    /\ fnActive = {}
    /\ fnResult = 0

InitNextHour ==
    /\ fnPc = "input"
    /\ fnNow \in TimeInputs
    /\ fnActive \in ActiveInputs
    /\ fnResult = 0

\* a search that also accepts the current hour ("h >= current_hour")
find_next_active_minute_same_hour(current_time, active_hours) ==
    LET current_hour == HourOfMinute(current_time)
        midnight == current_time - (current_time % (24 * MINUTES))
        today_active_hours == {h \in active_hours :
                                  h >= current_hour /\ MIN_HOUR <= h /\ h <= MAX_HOUR}
        Min(S) == CHOOSE m \in S : \A x \in S : m <= x
    IN IF today_active_hours # {}
       THEN midnight + Min(today_active_hours) * MINUTES
       ELSE IF active_hours # {}
       THEN midnight + (24 + Min({h \in active_hours : MIN_HOUR <= h /\ h <= MAX_HOUR})) * MINUTES
       ELSE midnight + (24 + MIN_HOUR) * MINUTES

\* _find_next_active_hour(current_time, active_hours) on timestamps with
\* minutes: replace(hour=..., minute=0, second=0, microsecond=0)
find_next_active_minute(current_time, active_hours) ==
    LET current_hour == HourOfMinute(current_time)
        midnight == current_time - (current_time % (24 * MINUTES))
        today_active_hours == {h \in active_hours :
                                  h > current_hour /\ MIN_HOUR <= h /\ h <= MAX_HOUR}
        Min(S) == CHOOSE m \in S : \A x \in S : m <= x
    IN IF today_active_hours # {}
       THEN midnight + Min(today_active_hours) * MINUTES
       ELSE IF active_hours # {}
       THEN midnight + (24 + Min({h \in active_hours : MIN_HOUR <= h /\ h <= MAX_HOUR})) * MINUTES
       ELSE midnight + (24 + MIN_HOUR) * MINUTES

\* the call returns
FindNext ==
    /\ fnPc = "input"
    /\ fnPc' = "returned"
    /\ fnResult' = find_next_active_minute(fnNow, fnActive)
    /\ UNCHANGED <<fnNow, fnActive>>

\* the end of a scheduler iteration: asyncio.sleep(wait_seconds) with
\* wait_seconds = next_active_hour - current_time, started at the present hour
\* (the iteration's locals are dropped)
Reschedule(current_time, active_hours) ==
    /\ schedPc' = "sleep"
    /\ wake' = now + (find_next_active_hour(current_time, active_hours) - current_time)
    /\ users_to_send' = {}
    /\ cycStart' = 0
    /\ cycActive' = {}
    /\ cycToday' = NoDate
    /\ cycPosts' = <<>>

\* a scheduler that forgets whom it has served
AlreadySentNever(u) == FALSE

\* send_newsletter_to_user_by_time: "if user_id in self.sent_today: return"
AlreadySent(u) == u \in sent_today

\* a selection that takes the subscribers of every hour
HourMatchesAlways(u, current_hour) == TRUE

\* check_and_send_hourly_newsletters: "user_hour == current_hour"
HourMatches(u, current_hour) == get_user_newsletter_time(u) = current_hour

\* check_and_send_hourly_newsletters after get_daily_posts returned posts
SelectAndSend(posts, current_time, active_hours) ==
    LET current_hour == Hour(current_time)
        selected == {u \in subscribed_users :
                        HourMatches(u, current_hour) /\ ~AlreadySent(u)}
    IN IF Len(posts) = 0 \/ selected = {}
       THEN Reschedule(current_time, active_hours)
       ELSE /\ schedPc' = "send"
            /\ users_to_send' = selected
            /\ cycPosts' = posts
            /\ cycStart' = current_time
            /\ cycActive' = active_hours
            /\ cycToday' = Date(current_time)
            /\ UNCHANGED wake

\* a get_daily_posts that uses its cache whatever its date stamp
CacheValidAnyDate(today) == Len(daily_posts_cache) > 0

\* a get_daily_posts that never uses its cache
CacheValidNever(today) == FALSE

\* get_daily_posts: "if self.last_scan_date == today and self.daily_posts_cache"
CacheValid(today) == last_scan_date = today /\ Len(daily_posts_cache) > 0

\* a scheduler that, without subscribers, sleeps until 9:00 of the same day
NoSubscribersWakeSameDay(t) == DayStart(t) + MIN_HOUR

\* start_daily_scheduler, "if not active_hours": next_check is 9:00 of the
\* day, moved to the next day "if current_hour >= 9"
NoSubscribersWake(t) ==
    DayStart(t) + MIN_HOUR + (IF Hour(t) >= MIN_HOUR THEN 24 ELSE 0)

\* start_daily_scheduler: the sleep ended; one iteration up to its first await
SchedWake ==
    LET current_time == now
        active_hours == get_active_hours
        today == Date(now)
    IN /\ schedPc = "sleep"
       /\ now >= wake
       /\ IF active_hours = {}
          THEN \* sleep until 9:00, of the next day if it is past 9:00
               /\ wake' = NoSubscribersWake(now)
               /\ UNCHANGED <<schedPc, cycStart, cycActive, cycToday, cycPosts,
                              users_to_send>>
          ELSE IF Hour(now) \in active_hours
          THEN \* check_and_send_hourly_newsletters, get_daily_posts
               IF CacheValid(today)
               THEN SelectAndSend(daily_posts_cache, current_time, active_hours)
               ELSE /\ schedPc' = "scan"
                    /\ cycStart' = current_time
                    /\ cycActive' = active_hours
                    /\ cycToday' = today
                    /\ UNCHANGED <<wake, cycPosts, users_to_send>>
          ELSE Reschedule(current_time, active_hours)
       /\ fallback' = IF fallback = "sleeping" /\ schedPc' # "sleep"
                      THEN "resumed" ELSE "none"
       /\ rescansOn' = IF /\ Hour(now) \in active_hours
                          /\ ~CacheValid(today)
                          /\ hitOn
                       THEN rescansOn + 1
                       ELSE rescansOn
       /\ UNCHANGED <<subVars, sent_today, now, received, forceVars,
                      daily_posts_cache, last_scan_date, scansOn, hitOn>>

\* an "except" branch that sleeps until the end of the next day
FallbackWakeNextDay(t) == DayStart(t) + 48

\* "except Exception: ... await asyncio.sleep(3600)": the end of that sleep
FallbackWake(t) == t + FALLBACK_SLEEP

\* get_daily_posts: scan_channels_for_posts returned posts, or raised
\* (initialize or close of the channel client failed); then the rest of
\* check_and_send_hourly_newsletters up to its first send
SchedScanDone(posts, raised) ==
    /\ schedPc = "scan"
    /\ IF raised
       THEN \* "except Exception" of start_daily_scheduler: sleep(3600)
            /\ schedPc' = "sleep"
            /\ wake' = FallbackWake(now)
            /\ cycStart' = 0
            /\ cycActive' = {}
            /\ cycToday' = NoDate
            /\ UNCHANGED <<cacheVars, cycPosts, users_to_send>>
       ELSE /\ daily_posts_cache' = posts
            /\ last_scan_date' = cycToday
            /\ scansOn' = IF cycToday = Date(now) THEN scansOn + 1 ELSE scansOn
            /\ hitOn' = (hitOn \/ (Len(posts) > 0 /\ cycToday = Date(now)))
            /\ UNCHANGED rescansOn
            /\ SelectAndSend(posts, cycStart, cycActive)
    /\ fallback' = IF raised THEN "sleeping"
                   ELSE IF schedPc' = "sleep" THEN "none" ELSE fallback
    \* "if self.last_scan_date != today: self.sent_today.clear()" follows the
    \* assignment last_scan_date = today and never runs
    /\ UNCHANGED <<subVars, sent_today, now, received, forceVars>>

\* send_newsletter_to_user_by_time(u, posts) for one user of users_to_send
SchedSendDone(u, outcome) ==
    /\ schedPc = "send"
    /\ u \in users_to_send
    /\ IF AlreadySent(u)
       THEN UNCHANGED <<subVars, sent_today, received>>
       ELSE /\ SendToUser(u, "sched", outcome)
            /\ sent_today' = sent_today \cup {u}
    /\ IF users_to_send = {u}
       THEN Reschedule(cycStart, cycActive)
       ELSE /\ users_to_send' = users_to_send \ {u}
            /\ UNCHANGED <<schedPc, wake, cycStart, cycActive, cycToday, cycPosts>>
    /\ fallback' = IF schedPc' = "sleep" THEN "none" ELSE fallback
    /\ UNCHANGED <<now, forceVars, cacheVars>>

\* an iteration that yields users it has yielded before
ForceCandidatesAll(subs, visited) == subs

\* the users a step of "for user_id in self.subscribed_users" may yield
ForceCandidates(subs, visited) == subs \ visited

\* the loop "for user_id in self.subscribed_users" is left (its end, or the
\* RuntimeError that run_daily_scan catches): the handler returns
ForceEnd ==
    /\ forcePc' = "idle"
    /\ forceCur' = NoUser
    /\ forceVisited' = {}
    /\ forceSnapshot' = {}
    /\ forceSize' = 0

\* the next step of "for user_id in self.subscribed_users": RuntimeError when
\* the set changed size, else the next user, else the end of the loop
ForceIterate(subs, visited) ==
    IF Cardinality(subs) # forceSize
    THEN ForceEnd
    ELSE \/ /\ ForceCandidates(subs, visited) \cap forceSnapshot = {}
            /\ ForceEnd
         \/ \E u \in ForceCandidates(subs, visited) :
               /\ forcePc' = "send"
               /\ forceCur' = u
               /\ forceVisited' = visited \cup {u}
               /\ UNCHANGED <<forceSnapshot, forceSize>>

\* scan_command -> force_scan_now -> run_daily_scan, up to the scan
ForceStart(u) ==
    /\ forcePc = "idle"
    /\ u \in subscribed_users
    /\ forceOn < MaxForce
    /\ forcePc' = "scan"
    /\ forceOn' = forceOn + 1
    /\ UNCHANGED <<subVars, sent_today, now, received, schedVars, cacheVars,
                   forceSize, forceSnapshot, forceVisited, forceCur>>

\* run_daily_scan: scan_channels_for_posts returned or raised; then
\* send_newsletter_to_users up to its first send
ForceScanDone(posts, raised) ==
    /\ forcePc = "scan"
    /\ IF raised \/ Len(posts) = 0 \/ subscribed_users = {}
       THEN /\ forcePc' = "idle"
            /\ UNCHANGED <<forceSize, forceSnapshot, forceVisited, forceCur>>
       ELSE /\ forceSize' = Cardinality(subscribed_users)
            /\ forceSnapshot' = subscribed_users
            /\ \E u \in subscribed_users :
                  /\ forcePc' = "send"
                  /\ forceCur' = u
                  /\ forceVisited' = {u}
    /\ UNCHANGED <<subVars, sent_today, now, received, schedVars, cacheVars, forceOn>>

\* send_newsletter_to_users: the send to the current user ended; next user
ForceSendDone(outcome) ==
    /\ forcePc = "send"
    /\ SendToUser(forceCur, "forced", outcome)
    /\ ForceIterate(subscribed_users', forceVisited)
    /\ UNCHANGED <<sent_today, now, schedVars, cacheVars, forceOn>>

\* one hour passes; a sleeping scheduler whose time has come wakes first.
\* At midnight the per-date records start again for the new date.
Tick(horizon) ==
    /\ now + 1 < horizon
    /\ ~(schedPc = "sleep" /\ now >= wake)
    /\ now' = now + 1
    /\ IF Date(now + 1) # Date(now)
       THEN /\ received' = [u \in Users |-> [p \in Paths |-> 0]]
            /\ forceOn' = IF forcePc # "idle" THEN 1 ELSE 0
            /\ scansOn' = 0
            /\ hitOn' = FALSE
            /\ rescansOn' = 0
       ELSE UNCHANGED <<received, forceOn, scansOn, hitOn, rescansOn>>
    /\ UNCHANGED <<subVars, sent_today, schedVars, daily_posts_cache, last_scan_date,
                   forcePc, forceSize, forceSnapshot, forceVisited, forceCur>>

\* ------------------------------------------------------------------------
\* Delivery Sink: split_summary_by_length
\* ------------------------------------------------------------------------
\* characters of a summary
MaxTextLen == 5

\* a string is the sequence of its characters
Chars == {"a", "b", " ", "\n"}

\* str.strip() removes these at both ends
Whitespace == {" ", "\n"}

\* the summaries and the limits the function is called with
SummaryInputs == UNION {[1..n -> Chars] : n \in 0..MaxTextLen}

MaxLengthInputs == {2, 3}

\* before the call (the specifications of the other parts stay here)
InitSplitIdle ==
    /\ splitPc = "input"
    /\ splitSummary = <<>>
    /\ splitMaxLength = 4000
    /\ splitParts = <<>>

\* a call of split_summary_by_length with its arguments
InitSplit ==
    /\ splitPc = "input"
    /\ splitSummary \in SummaryInputs
    /\ splitMaxLength \in MaxLengthInputs
    /\ splitParts = <<>>

\* str.split('\n'): the lines, at least one
RECURSIVE SplitLines(_, _)
SplitLines(s, line) ==
    IF s = <<>>
    THEN <<line>>
    ELSE IF Head(s) = "\n"
         THEN <<line>> \o SplitLines(Tail(s), <<>>)
         ELSE SplitLines(Tail(s), Append(line, Head(s)))

\* str.strip()
RECURSIVE LStrip(_)
LStrip(s) ==
    IF s # <<>> /\ Head(s) \in Whitespace THEN LStrip(Tail(s)) ELSE s

RECURSIVE RStrip(_)
RStrip(s) ==
    IF s # <<>> /\ s[Len(s)] \in Whitespace
    THEN RStrip(SubSeq(s, 1, Len(s) - 1))
    ELSE s

Strip(s) == RStrip(LStrip(s))

\* a part that starts with as much of the line as fits
StartPartCut(line, max_length) ==
    SubSeq(line, 1, IF Len(line) < max_length THEN Len(line) ELSE max_length)

\* "current_part = line"
StartPart(line, max_length) == line

\* "for line in lines", with the final "if current_part: parts.append(...)"
RECURSIVE SplitLoop(_, _, _, _)
SplitLoop(lines, parts, current_part, max_length) ==
    IF lines = <<>>
    THEN IF current_part # <<>> THEN Append(parts, Strip(current_part)) ELSE parts
    ELSE LET line == Head(lines)
         IN IF Len(current_part) + Len(line) + 1 > max_length /\ current_part # <<>>
            THEN SplitLoop(Tail(lines), Append(parts, Strip(current_part)),
                           StartPart(line, max_length), max_length)
            ELSE IF current_part # <<>>
                 THEN SplitLoop(Tail(lines), parts,
                                current_part \o <<"\n">> \o line, max_length)
                 ELSE SplitLoop(Tail(lines), parts,
                                StartPart(line, max_length), max_length)

\* split_summary_by_length(summary, max_length)
split_summary_by_length(summary, max_length) ==
    IF Len(summary) <= max_length
    THEN <<summary>>
    ELSE SplitLoop(SplitLines(summary, <<>>), <<>>, <<>>, max_length)

\* the call returns
SplitCall ==
    /\ splitPc = "input"
    /\ splitPc' = "returned"
    /\ splitParts' = split_summary_by_length(splitSummary, splitMaxLength)
    /\ UNCHANGED <<splitSummary, splitMaxLength>>

\* ------------------------------------------------------------------------
\* Subscriber Store, method by method
\* ------------------------------------------------------------------------
\* what the caller sees of the store
Store == [subs |-> subscribed_users, times |-> subscriber_times, file |-> persisted]

\* before the first call
InitCall ==
    /\ callOp = "none"
    /\ callUser = NoUser
    /\ callHour = NoHour
    /\ callOutcome = "none"
    /\ callResult = "None"
    /\ callBefore = [subs |-> {}, times |-> [u \in Users |-> NoHour],
                     file |-> [u \in Users |-> NoHour]]

\* the call that is made, with its arguments
Called(op, u, hour, outcome) ==
    /\ callOp' = op
    /\ callUser' = u
    /\ callHour' = hour
    /\ callOutcome' = outcome
    /\ callBefore' = Store

\* is_user_subscribed
is_user_subscribed(u) == u \in subscribed_users

\* a subscribe_user that always reports success
subscribe_user_returns_true(u) == TRUE

\* the value subscribe_user returns
subscribe_user_returns(u) == u \notin subscribed_users

\* the value unsubscribe_user returns
unsubscribe_user_returns(u) == u \in subscribed_users

\* the value set_user_newsletter_time returns
set_user_newsletter_time_returns(u, hour) ==
    u \in subscribed_users /\ MIN_HOUR <= hour /\ hour <= MAX_HOUR

\* "True" and "False" of Python
PyBool(b) == IF b THEN "True" ELSE "False"

\* subscribe_user(u), up to its return
CallSubscribe(u) ==
    /\ Called("subscribe_user", u, NoHour, "none")
    /\ callResult' = PyBool(subscribe_user_returns(u))
    /\ \/ subscribe_user(u)
       \/ u \in subscribed_users /\ UNCHANGED newsVars

\* unsubscribe_user(u), up to its return
CallUnsubscribe(u) ==
    /\ Called("unsubscribe_user", u, NoHour, "none")
    /\ callResult' = PyBool(unsubscribe_user_returns(u))
    /\ \/ unsubscribe_user(u)
       \/ u \notin subscribed_users /\ UNCHANGED newsVars

\* set_user_newsletter_time(u, hour), up to its return
CallSetTime(u, hour) ==
    /\ Called("set_user_newsletter_time", u, hour, "none")
    /\ callResult' = PyBool(set_user_newsletter_time_returns(u, hour))
    /\ \/ set_user_newsletter_time(u, hour)
       \/ /\ ~(u \in subscribed_users /\ MIN_HOUR <= hour /\ hour <= MAX_HOUR)
          /\ UNCHANGED newsVars

\* _send_newsletter_to_user(u, posts), up to its return; the messages one user
\* is sent this way are counted up to MaxForce
CallSend(u, outcome) ==
    /\ received[u]["forced"] < MaxForce
    /\ Called("_send_newsletter_to_user", u, NoHour, outcome)
    /\ callResult' = "None"
    /\ SendToUser(u, "forced", outcome)
    /\ UNCHANGED <<sent_today, now, schedVars, forceVars, cacheVars>>

\* the methods of the store, called in any order
StoreStep ==
    \/ \E u \in Users : CallSubscribe(u)
    \/ \E u \in Users : CallUnsubscribe(u)
    \/ \E u \in Users, h \in HourInputs : CallSetTime(u, h)
    \/ \E u \in Users, outcome \in SendOutcomes : CallSend(u, outcome)

\* posts one channel returns to one call of get_posts
MaxChannelPosts == 2

\* ------------------------------------------------------------------------
\* Channel scan (scan_channels_for_posts)
\* ------------------------------------------------------------------------
\* self.standard_channels, three of its entries
standard_channels == <<"moshkovic_law", "movingtoIsrael", "gervits_eli">>

\* self.target_tags, two of its entries in their order
target_tags == <<"nalogi", "banki">>

\* has_target_tags found nothing
NoTag == "None"

\* the texts of the posts a channel may hold: a text is its words
TextInputs == {<<>>, <<"shalom">>, <<"banki">>, <<"banki", "nalogi">>}

\* what get_posts may return for one channel
FetchInputs ==
    UNION {[1..n -> TextInputs] : n \in 0..MaxChannelPosts}

\* get_posts ends with the posts, with an error inside the monitor that makes
\* it return no post, or with an exception
FetchOutcomes == {"ok", "source_error", "raised"}

\* before the call
InitScan ==
    /\ scanPc = "idle"
    /\ scanIndex = 1
    /\ found_posts = <<>>
    /\ fetched = [i \in 1..Len(standard_channels) |->
                     [outcome |-> "pending", posts |-> <<>>]]

\* has_target_tags: the first target tag the text contains
has_target_tags(text) ==
    LET hits == {k \in 1..Len(target_tags) :
                    \E w \in 1..Len(text) : text[w] = target_tags[k]}
    IN IF text = <<>> \/ hits = {}
       THEN NoTag
       ELSE target_tags[CHOOSE k \in hits : \A l \in hits : k <= l]

\* "for post in posts": the entries appended to found_posts for one channel
RECURSIVE MatchingPosts(_, _)
MatchingPosts(channel_name, posts) ==
    IF posts = <<>>
    THEN <<>>
    ELSE LET text == Head(posts)
             found_tag == has_target_tags(text)
         IN (IF text # <<>> /\ found_tag # NoTag
             THEN <<[channel_name |-> channel_name, tag |-> found_tag,
                     text |-> text]>>
             ELSE <<>>)
            \o MatchingPosts(channel_name, Tail(posts))

\* a scan that gives up at the first channel that fails
AfterFailureStops(i) == Len(standard_channels) + 1

\* "except Exception ... continue", and "if not posts: continue"
AfterFailure(i) == i + 1

\* await self.channel_monitor.initialize(), then the loop starts
ScanStart ==
    /\ scanPc = "idle"
    /\ scanPc' = "loop"
    /\ UNCHANGED <<scanIndex, found_posts, fetched>>

\* one iteration of "for channel_name in self.standard_channels"
ScanChannel(outcome, posts) ==
    /\ scanPc = "loop"
    /\ scanIndex <= Len(standard_channels)
    /\ fetched' = [fetched EXCEPT ![scanIndex] =
                      [outcome |-> outcome,
                       posts |-> IF outcome = "ok" THEN posts ELSE <<>>]]
    /\ IF outcome = "ok"
       THEN /\ found_posts' =
                   found_posts \o MatchingPosts(standard_channels[scanIndex], posts)
            /\ scanIndex' = scanIndex + 1
       ELSE /\ found_posts' = found_posts
            /\ scanIndex' = AfterFailure(scanIndex)
    /\ UNCHANGED scanPc

\* the loop is over: await self.channel_monitor.close(); return found_posts
ScanClose ==
    /\ scanPc = "loop"
    /\ scanIndex > Len(standard_channels)
    /\ scanPc' = "returned"
    /\ UNCHANGED <<scanIndex, found_posts, fetched>>

\* a call of scan_channels_for_posts
ScanStep ==
    \/ ScanStart
    \/ \E posts \in FetchInputs : ScanChannel("ok", posts)
    \/ \E outcome \in FetchOutcomes \ {"ok"} : ScanChannel(outcome, <<>>)
    \/ ScanClose

\* ------------------------------------------------------------------------
\* Two scans on the shared ChannelMonitor
\* ------------------------------------------------------------------------
\* ChannelMonitor.client before the first initialize()
NoClient == "None"

\* what a channel may hold: nothing, or one post with a target tag
ChannelContents == {<<>>, << <<"banki">> >>}

\* no scan has been called (the specifications of the other parts stay here)
InitOverlapIdle ==
    /\ ovPc = [s \in Paths |-> "idle"]
    /\ ovIndex = [s \in Paths |-> 1]
    /\ ovFound = [s \in Paths |-> <<>>]
    /\ ovContent = [i \in 1..Len(standard_channels) |-> <<>>]
    /\ monitor_client = NoClient
    /\ client_connected = [s \in Paths |-> FALSE]

\* the same, with the posts the channels hold during the scans
InitOverlap ==
    /\ ovPc = [s \in Paths |-> "idle"]
    /\ ovIndex = [s \in Paths |-> 1]
    /\ ovFound = [s \in Paths |-> <<>>]
    /\ ovContent \in [1..Len(standard_channels) -> ChannelContents]
    /\ monitor_client = NoClient
    /\ client_connected = [s \in Paths |-> FALSE]

\* the client a call of the monitor uses: self.client
ClientOf(s) == monitor_client

\* ChannelMonitor.initialize up to its await: self.client = TelegramClient(...)
OvInitialize(s) ==
    /\ ovPc[s] = "idle"
    /\ ovPc' = [ovPc EXCEPT ![s] = "starting"]
    /\ monitor_client' = s
    /\ UNCHANGED <<ovIndex, ovFound, ovContent, client_connected, newsVars>>

\* "await self.client.start(phone=self.phone)" returned, for the client the
\* scan created: the loop starts
OvStarted(s) ==
    /\ ovPc[s] = "starting"
    /\ ovPc' = [ovPc EXCEPT ![s] = "loop"]
    /\ client_connected' = [client_connected EXCEPT ![s] = TRUE]
    /\ UNCHANGED <<ovIndex, ovFound, ovContent, monitor_client, newsVars>>

\* one iteration of "for channel_name in self.standard_channels": get_posts
\* returns the channel's posts when the client is connected; on a client that
\* is not, the request raises inside the monitor and the channel gives nothing
OvChannel(s) ==
    /\ ovPc[s] = "loop"
    /\ ovIndex[s] <= Len(standard_channels)
    /\ ovFound' = [ovFound EXCEPT ![s] =
                      IF client_connected[ClientOf(s)]
                      THEN @ \o MatchingPosts(standard_channels[ovIndex[s]],
                                              ovContent[ovIndex[s]])
                      ELSE @]
    /\ ovIndex' = [ovIndex EXCEPT ![s] = @ + 1]
    /\ UNCHANGED <<ovPc, ovContent, monitor_client, client_connected, newsVars>>

\* the loop is over: ChannelMonitor.close() disconnects self.client and the
\* scan returns; get_daily_posts stores what its scan returned
OvClose(s) ==
    /\ ovPc[s] = "loop"
    /\ ovIndex[s] > Len(standard_channels)
    /\ ovPc' = [ovPc EXCEPT ![s] = "returned"]
    /\ client_connected' = [client_connected EXCEPT ![ClientOf(s)] = FALSE]
    /\ IF s = "sched"
       THEN /\ daily_posts_cache' = ovFound[s]
            /\ last_scan_date' = Date(now)
       ELSE UNCHANGED <<daily_posts_cache, last_scan_date>>
    /\ UNCHANGED <<ovIndex, ovFound, ovContent, monitor_client>>
    /\ UNCHANGED <<subVars, sent_today, now, received, schedVars, forceVars, scansOn,
                   hitOn, rescansOn>>

\* the scan of get_daily_posts and the scan of run_daily_scan
OverlapStep ==
    \/ \E s \in Paths : OvInitialize(s)
    \/ \E s \in Paths : OvStarted(s)
    \/ \E s \in Paths : OvChannel(s)
    \/ \E s \in Paths : OvClose(s)

\* the handlers of the subscription menu
HandlerStep ==
    \/ \E u \in Users : subscribe_user(u)
    \/ \E u \in Users : unsubscribe_user(u)
    \/ \E u \in Users, h \in HourInputs : set_user_newsletter_time(u, h)

\* the scheduler task (start_daily_scheduler)
SchedStep ==
    \/ SchedWake
    \/ \E posts \in PostLists, raised \in BOOLEAN : SchedScanDone(posts, raised)
    \/ \E u \in Users, o \in SendOutcomes : SchedSendDone(u, o)

\* the /scan handler (scan_command)
ForceStep ==
    \/ \E u \in Users : ForceStart(u)
    \/ \E posts \in PostLists, raised \in BOOLEAN : ForceScanDone(posts, raised)
    \/ \E o \in SendOutcomes : ForceSendDone(o)

\* the hours the clock runs through: every date of the model, and with the
\* forced scans the first date up to the hour after the default delivery hour
Horizon == MaxDay * 24
ForceHorizon == DEFAULT_HOUR + 2

\* ------------------------------------------------------------------------
\* Claims about the newsletter service
\* ------------------------------------------------------------------------
\* C7: a subscriber receives at most one scheduler-triggered delivery on a
\* calendar date, whatever the subscription handlers do in between.
C7_OncePerDateScheduled ==
    \A u \in Users : received[u]["sched"] <= 1

\* a delivery cycle at 12:00 is serving user 2 and leaves out user 1, who was
\* served this date at another hour and has hour 12 now
C7_Witness ==
    /\ schedPc = "send"
    /\ Hour(cycStart) = DEFAULT_HOUR
    /\ users_to_send = {2}
    /\ 1 \in subscribed_users
    /\ get_user_newsletter_time(1) = DEFAULT_HOUR
    /\ 1 \in sent_today
    /\ received[1]["sched"] = 1

C9_SentTodayCleared ==
    [][last_scan_date' # last_scan_date => sent_today' = {}]_vars

C11_CacheOnlyForToday ==
    [][/\ (schedPc = "sleep" /\ schedPc' = "send") =>
              /\ last_scan_date = Date(now)
              /\ cycPosts' = daily_posts_cache
       /\ (schedPc = "sleep" /\ schedPc' # "sleep" /\ last_scan_date # Date(now)) =>
              schedPc' = "scan"
       /\ (schedPc = "scan" /\ last_scan_date' # last_scan_date) =>
              last_scan_date' = cycToday
      ]_vars

\* on date 2 a call finds the non-empty cache of date 1 and is scanning
C11_Witness ==
    /\ schedPc = "scan"
    /\ cycToday = 2
    /\ last_scan_date = 1
    /\ Len(daily_posts_cache) > 0

\* C12: the partitioning step groups the posts by channel in their input order
\* and cuts each channel's list into k = ceil(n / batch_size) consecutive
\* batches, each with at least one and at most batch_size posts, whose
\* concatenation in index order is the channel's list.
C12_Partition ==
    partPc = "cut" =>
        \A c \in Channels :
            LET list == channels_posts[c]
                k == Len(batches[c])
            IN /\ list = SelectSeq(partPosts, LAMBDA p : p[1] = c)
               /\ k = BatchCount(Len(list), partBatchSize)
               /\ k * partBatchSize >= Len(list)
               /\ (k - 1) * partBatchSize < Len(list) \/ k = 0
               /\ \A i \in 1..k : Len(batches[c][i]) \in 1..partBatchSize
               /\ Flatten(batches[c]) = list

\* three posts of channel a around one of channel b, cut by two: channel a
\* has a full batch and a shorter last one
C12_Witness ==
    /\ partPc = "cut"
    /\ partBatchSize = 2
    /\ partPosts = << <<"a", 1>>, <<"b", 2>>, <<"a", 3>>, <<"a", 4>> >>
    /\ batches["a"] = << << <<"a", 1>>, <<"a", 3>> >>, << <<"a", 4>> >> >>
    /\ batches["b"] = << << <<"b", 2>> >> >>

\* C13: in one run the summarization collaborator is called at most once for
\* a batch, and when the run has returned exactly once for each batch, so that
\* the calls add up to the sum of the channels' batch counts.
C13_OncePerBatch ==
    \A r \in Runs :
        /\ \A c \in Channels, i \in BatchIdx : summarizeCalls[r][c][i] <= 1
        /\ runPc[r] = "returned" =>
              /\ \A c \in Channels, i \in BatchIdx :
                     summarizeCalls[r][c][i] = IF i <= channel_total_batches[r][c] THEN 1 ELSE 0
              /\ TotalCalls(r) = channel_total_batches[r]["a"] + channel_total_batches[r]["b"]

\* a returned run with three batches of channel a and one of channel b, one
\* of which failed: four calls
C13_Witness ==
    /\ runPc[1] = "returned"
    /\ channel_total_batches[1]["a"] = 3
    /\ channel_total_batches[1]["b"] = 1
    /\ "placeholder" \in Results(1, "a")
    /\ TotalCalls(1) = 4

\* C14: a run has returned only if every task it created has finished, with
\* the result of its summarization call, also when other tasks have failed.
C14_ReturnsAfterAllTasks ==
    \A r \in Runs :
        runPc[r] = "returned" =>
            \A c \in Channels, i \in BatchIdx :
                i <= channel_total_batches[r][c] =>
                    /\ taskPc[r][c][i] = "done"
                    /\ taskResult[r][c][i] # NoSummary

\* a returned run in which batch 1 of channel a failed and a send to channel b
\* raised, while batch 2 of channel a was summarized and delivered
C14_Witness ==
    /\ runPc[1] = "returned"
    /\ taskResult[1]["a"][1] = "placeholder"
    /\ sendRaised[1]["b"] # {}
    /\ sink[1]["a"] = << <<1, "placeholder">>, <<2, "summary">> >>
    /\ \A c \in Channels, i \in BatchIdx :
           i <= channel_total_batches[1][c] => taskPc[1][c][i] = "done"

\* C15: what the sink has received for a channel is, position by position, the
\* result of the batch of that position, a failed batch's placeholder included,
\* and the next expected index is one past it; when the run has returned and
\* no send raised and no result was empty, every failed batch's placeholder
\* is in the sink at its own position.
C15_PlaceholderInPlace ==
    \A r \in Runs, c \in Channels :
        /\ \A j \in 1..Len(sink[r][c]) : sink[r][c][j] = <<j, taskResult[r][c][j]>>
        /\ channel_total_batches[r][c] > 0 => channel_next_batch[r][c] = Len(sink[r][c]) + 1
        /\ (runPc[r] = "returned" /\ sendRaised[r][c] = {} /\ "empty" \notin Results(r, c)) =>
              \A i \in 1..channel_total_batches[r][c] :
                  taskResult[r][c][i] = "placeholder" =>
                      /\ Len(sink[r][c]) >= i
                      /\ sink[r][c][i] = <<i, "placeholder">>

\* batch 2 of channel a failed before batch 1 was ready; its placeholder was
\* buffered, then delivered right after batch 1, and batch 3 is expected next
C15_Witness ==
    /\ runPc[1] = "running"
    /\ 2 \in bufferedAhead[1]["a"]
    /\ sink[1]["a"] = << <<1, "summary">>, <<2, "placeholder">> >>
    /\ channel_next_batch[1]["a"] = 3
    /\ channel_total_batches[1]["a"] = 3
    /\ taskPc[1]["a"][3] \in {"waiting", "summarizing"}

\* C16: a send_callback that raises ends only the drain of its task: the task
\* finishes, releasing the channel lock and its limiter slot, and the run goes
\* on; no step takes anything back from the sink; and a run in which a send
\* raised returns with every task executed.
C16_SendFailureContained ==
    [][\A r \in Runs :
          /\ \A c \in Channels :
                /\ Len(sink[r][c]) <= Len(sink'[r][c])
                /\ SubSeq(sink'[r][c], 1, Len(sink[r][c])) = sink[r][c]
                /\ sendRaised'[r][c] # sendRaised[r][c] =>
                      /\ channel_locks'[r][c] = NoTask
                      /\ semaphore'[r] = semaphore[r] + 1
                      /\ runPc'[r] = "running"
                      /\ \E i \in BatchIdx :
                            taskPc[r][c][i] = "sending" /\ taskPc'[r][c][i] = "done"
          /\ (runPc'[r] = "returned" /\ \E c \in Channels : sendRaised'[r][c] # {}) =>
                \A c \in Channels, i \in BatchIdx :
                    i <= channel_total_batches'[r][c] =>
                        taskPc'[r][c][i] = "done" /\ summarizeCalls'[r][c][i] = 1
      ]_vars

\* a returned run: the send of batch 2 of channel a raised after batch 1 had
\* been delivered; batch 1 stays delivered, batch 3 was still summarized and
\* channel b was delivered
C16_Witness ==
    /\ runPc[1] = "returned"
    /\ sendRaised[1]["a"] = {2}
    /\ sink[1]["a"] = << <<1, "summary">> >>
    /\ channel_total_batches[1]["a"] = 3
    /\ taskResult[1]["a"][3] = "summary"
    /\ sink[1]["b"] = << <<1, "summary">> >>

\* C17: an exception in an iteration of the scheduler loop puts the loop into
\* a sleep of the fallback interval, and the loop then starts another
\* iteration (while the clock of the model still runs to the end of that sleep).
C17_LoopSurvivesFailure ==
    /\ [](fallback = "sleeping" => /\ schedPc = "sleep"
                                   /\ now <= wake
                                   /\ wake <= now + FALLBACK_SLEEP)
    /\ (fallback = "sleeping" /\ wake < Horizon) ~> (fallback # "sleeping")

\* the scan of a cycle raised, the loop slept the fallback interval and its
\* next iteration, at 12:00, is scanning again
C17_Witness ==
    /\ fallback = "resumed"
    /\ schedPc = "scan"
    /\ cycStart = now
    /\ Hour(now) = DEFAULT_HOUR

\* C18: when hour H of a day begins for a subscriber who has hour H configured
\* and has not been served, a sleeping scheduler's sleep has ended, so that it
\* runs its delivery cycle at hour H.
C18_CycleAtConfiguredHour ==
    [][(/\ now' = now + 1
        /\ schedPc = "sleep"
        /\ \E u \in subscribed_users :
              /\ get_user_newsletter_time(u) = Hour(now')
              /\ u \notin sent_today)
       => wake <= now'
      ]_vars

\* C19: _find_next_active_hour returns a timestamp after current_time and on
\* the hour: today at the smallest active hour greater than the current hour
\* if there is one, else tomorrow at the smallest active hour, else tomorrow
\* at 09:00; no active hour begins between current_time and that timestamp.
C19_NextActiveHour ==
    fnPc = "returned" =>
        LET later == {h \in fnActive : h > HourOfMinute(fnNow)}
            Least(S) == CHOOSE m \in S : \A x \in S : m <= x
            midnight == fnNow - (fnNow % (24 * MINUTES))
        IN /\ fnResult > fnNow
           /\ fnResult % MINUTES = 0
           /\ fnResult = IF later # {} THEN midnight + Least(later) * MINUTES
                          ELSE IF fnActive # {}
                          THEN midnight + (24 + Least(fnActive)) * MINUTES
                          ELSE midnight + (24 + MIN_HOUR) * MINUTES
           /\ \A t \in (fnNow + 1)..(fnResult - 1) :
                  ~(t % MINUTES = 0 /\ HourOfMinute(t) \in fnActive)

\* at 12:30 of date 1 with active hours 9 and 12: 09:00 of date 2
C19_Witness ==
    /\ fnPc = "returned"
    /\ fnNow = DEFAULT_HOUR * MINUTES + 30
    /\ fnActive = {MIN_HOUR, DEFAULT_HOUR}
    /\ fnResult = (24 + MIN_HOUR) * MINUTES

\* C20: a delivery cycle serves exactly the users it selected, and it selects
\* the subscribers whose hour is the hour of the cycle and who are not in
\* sent_today: the sends start only with a non-empty post list and with that
\* selection; every step of the sends serves one selected user and flags that
\* user; the cycle ends with the last selected user; and outside the sends no
\* scheduler delivery is made (the count of the date does not grow) and
\* sent_today does not change.
C20_CycleServesSelection ==
    [][/\ (schedPc # "send" /\ schedPc' = "send") =>
              /\ Len(cycPosts') > 0
              /\ users_to_send' # {}
              /\ users_to_send' =
                     {u \in subscribed_users :
                         /\ get_user_newsletter_time(u) = Hour(cycStart')
                         /\ u \notin sent_today}
       /\ (schedPc = "send" /\ (users_to_send' # users_to_send \/ schedPc' # "send")) =>
              \E u \in users_to_send :
                  /\ sent_today' = sent_today \cup {u}
                  /\ \A v \in Users \ {u} : received'[v] = received[v]
                  /\ IF users_to_send = {u}
                     THEN schedPc' = "sleep"
                     ELSE schedPc' = "send" /\ users_to_send' = users_to_send \ {u}
       /\ (schedPc # "send" \/ (users_to_send' = users_to_send /\ schedPc' = "send")) =>
              /\ sent_today' = sent_today
              /\ \A v \in Users : received'[v]["sched"] <= received[v]["sched"]
      ]_vars

\* the cycle of 9:00 has served user 1, whose hour is 9, and has ended; user 2,
\* whose hour is 12, was not served and is not flagged
C20_Witness ==
    /\ schedPc = "sleep"
    /\ Hour(now) = MIN_HOUR
    /\ wake > now
    /\ subscribed_users = {1, 2}
    /\ get_user_newsletter_time(1) = MIN_HOUR
    /\ get_user_newsletter_time(2) = DEFAULT_HOUR
    /\ sent_today = {1}
    /\ received[1]["sched"] = 1
    /\ received[2]["sched"] = 0

C22_ForceInterruptsSleep ==
    [][(/\ forcePc = "idle" /\ forcePc' = "scan"
        /\ schedPc = "sleep" /\ wake > now)
       => (schedPc' # "sleep" \/ wake' <= now')
      ]_vars

C24_IterationUndisturbed ==
    [][(forcePc = "send" /\ forcePc' = "idle")
        => (forceSnapshot \cap subscribed_users') \subseteq forceVisited]_vars

\* the entries of the channels at positions i..n whose fetch succeeded
RECURSIVE MatchesFrom(_)
MatchesFrom(i) ==
    IF i > Len(standard_channels)
    THEN <<>>
    ELSE (IF fetched[i].outcome = "ok"
          THEN MatchingPosts(standard_channels[i], fetched[i].posts)
          ELSE <<>>)
         \o MatchesFrom(i + 1)

\* C25: scan_channels_for_posts returns after having asked every channel, and
\* its result is, in the order of the channel list, the matching posts of every
\* channel whose fetch succeeded and nothing of a channel whose fetch failed,
\* wherever the failing channels are in the list
C25_FailedChannelContributesNothing ==
    scanPc = "returned" =>
        /\ \A i \in 1..Len(standard_channels) : fetched[i].outcome # "pending"
        /\ found_posts = MatchesFrom(1)

\* the second channel failed; the first and the third gave matching posts,
\* which are in the result
C25_Witness ==
    /\ scanPc = "returned"
    /\ fetched[2].outcome = "raised"
    /\ fetched[1].outcome = "ok" /\ fetched[3].outcome = "ok"
    /\ \E k \in 1..Len(found_posts) : found_posts[k].channel_name = standard_channels[1]
    /\ \E k \in 1..Len(found_posts) : found_posts[k].channel_name = standard_channels[3]

\* C26: every chunk split_summary_by_length returns is at most max_length
\* characters long, whatever the text
C26_ChunksWithinMaxLength ==
    splitPc = "returned" =>
        \A k \in 1..Len(splitParts) : Len(splitParts[k]) <= splitMaxLength

\* the lines i..j joined by newlines
RECURSIVE JoinLines(_, _, _)
JoinLines(lines, i, j) ==
    IF i > j THEN <<>>
    ELSE IF i = j THEN lines[i]
    ELSE lines[i] \o <<"\n">> \o JoinLines(lines, i + 1, j)

\* the lines of a text that are not blank, each without the whitespace at its ends
RECURSIVE NonBlank(_)
NonBlank(lines) ==
    IF lines = <<>> THEN <<>>
    ELSE (IF Strip(Head(lines)) = <<>> THEN <<>> ELSE <<Strip(Head(lines))>>)
         \o NonBlank(Tail(lines))

\* the non-blank lines of the chunks k.. of the result, in order
RECURSIVE ChunkLinesFrom(_)
ChunkLinesFrom(k) ==
    IF k > Len(splitParts) THEN <<>>
    ELSE NonBlank(SplitLines(splitParts[k], <<>>)) \o ChunkLinesFrom(k + 1)

\* C27: every chunk is, up to the whitespace at its ends, a run of consecutive
\* whole lines of the input joined by newlines, and the non-blank lines of the
\* chunks, read in order, are the non-blank lines of the input, each once and
\* in input order
C27_WholeLinesOnceInOrder ==
    splitPc = "returned" =>
        LET lines == SplitLines(splitSummary, <<>>)
        IN /\ \A k \in 1..Len(splitParts) :
                \E i \in 1..Len(lines) : \E j \in i..Len(lines) :
                    Strip(splitParts[k]) = Strip(JoinLines(lines, i, j))
           /\ ChunkLinesFrom(1) = NonBlank(lines)

\* a text of three lines came back as a chunk of two lines and a chunk of one
C27_Witness ==
    /\ splitPc = "returned"
    /\ splitSummary = <<"a", "\n", "b", "\n", "a">>
    /\ splitParts = << <<"a", "\n", "b">>, <<"a">> >>

C29_SubscribeUnsubscribeResults ==
    /\ callOp = "subscribe_user" =>
        /\ callResult = "True" <=> callUser \notin callBefore.subs
        /\ is_user_subscribed(callUser)
    /\ callOp = "unsubscribe_user" =>
        /\ callResult = "True" <=> callUser \in callBefore.subs
        /\ ~is_user_subscribed(callUser)
    /\ (callOp \in {"subscribe_user", "unsubscribe_user"} /\ callResult = "False") =>
        /\ subscribed_users = callBefore.subs
        /\ subscriber_times = callBefore.times

\* a subscriber with the hour 9 subscribed again: False, and the hour is still 9
C29_Witness ==
    /\ callOp = "subscribe_user"
    /\ callResult = "False"
    /\ callUser \in callBefore.subs
    /\ subscriber_times[callUser] = MIN_HOUR

C31_SentTodayOnlySubscribers == sent_today \subseteq subscribed_users

\* C32: a batch that waits for the limiter is never kept waiting by a worker of
\* another channel that holds its slot while it waits for that channel's lock
\* or while that channel's delivery is in progress
C32_ChannelsDoNotBlock ==
    \A r \in Runs, c \in Channels, i \in BatchIdx :
        (taskPc[r][c][i] = "waiting" /\ semaphore[r] = 0)
        => \A d \in Channels \ {c}, j \in BatchIdx :
              taskPc[r][d][j] \notin {"lockwait", "sending"}

\* the tasks of a channel that are inside the drain section at an await
Draining(r, c) == {i \in BatchIdx : taskPc[r][c][i] = "sending"}

\* C33: at most one worker is inside a channel's drain section, and it is the
\* holder of the channel's lock; while the lock is held, a step that changes
\* the channel's buffer or its next expected index is a step of the holder
C33_OneDrainerPerChannel ==
    /\ [](\A r \in Runs, c \in Channels :
            /\ Cardinality(Draining(r, c)) <= 1
            /\ \A i \in Draining(r, c) : channel_locks[r][c] = <<c, i>>)
    /\ [][\A r \in Runs, c \in Channels :
            (/\ channel_locks[r][c] # NoTask
             /\ \/ channel_buffers'[r][c] # channel_buffers[r][c]
                \/ channel_next_batch'[r][c] # channel_next_batch[r][c])
            => LET holder == channel_locks[r][c][2]
               IN \/ taskPc'[r][c][holder] # taskPc[r][c][holder]
                  \/ taskCurrent'[r][c][holder] # taskCurrent[r][c][holder]]_vars

\* batch 1 of channel a is being delivered while batch 2 of the same channel,
\* already summarized, waits for the channel's lock
C33_Witness ==
    /\ taskPc[1]["a"][1] = "sending"
    /\ taskPc[1]["a"][2] = "lockwait"
    /\ channel_locks[1]["a"] = <<"a", 1>>
    /\ channel_buffers[1]["a"][2] = NoSummary

\* C34: the free slots of a run's limiter and the tasks between acquiring and
\* leaving it always add up to MAX_CONCURRENT_REQUESTS, a finished task holds no
\* slot, and when the run has returned every slot is free again, whether the
\* tasks ended normally, with a failed summarization or with a failed send
C34_LimiterReleased ==
    \A r \in Runs :
        (runPc[r] \in {"running", "returned"}
         /\ \E c \in Channels : channel_total_batches[r][c] > 0)
        => /\ semaphore[r] + Cardinality(Holders(r)) = MAX_CONCURRENT_REQUESTS
           /\ runPc[r] = "returned" => semaphore[r] = MAX_CONCURRENT_REQUESTS

\* a returned run in which one summarization failed, one send raised and one
\* batch went through, with every slot free
C34_Witness ==
    /\ runPc[1] = "returned"
    /\ semaphore[1] = MAX_CONCURRENT_REQUESTS
    /\ \E c \in Channels : sendRaised[1][c] # {}
    /\ \E c \in Channels : "placeholder" \in Results(1, c)
    /\ \E c \in Channels : Len(sink[1][c]) > 0

\* C35: a run that has started returns: every task gets through the limiter
\* and the channel locks and finishes, whatever the interleaving
C35_RunReturns == (runPc[1] = "running") ~> (runPc[1] = "returned")

\* a returned run of two channels with two batches each, in both of which
\* batch 2 was buffered while batch 1 was still pending
C35_Witness ==
    /\ runPc[1] = "returned"
    /\ channel_total_batches[1]["a"] = 2
    /\ channel_total_batches[1]["b"] = 2
    /\ bufferedAhead[1]["a"] = {2}
    /\ bufferedAhead[1]["b"] = {2}
    /\ \A c \in Channels, i \in 1..2 : taskPc[1][c][i] = "done"

\* C36: for every channel of a run, the next expected index is between 1 and
\* the channel's batch total + 1, every index in the channel's buffer is at
\* least the next expected index and at most the total, and the next expected
\* index changes only by growing by 1 together with one delivery to the sink
C36_NextExpectedAndBuffer ==
    /\ [](\A r \in Runs, c \in Channels :
            channel_total_batches[r][c] > 0 =>
                /\ 1 <= channel_next_batch[r][c]
                /\ channel_next_batch[r][c] <= channel_total_batches[r][c] + 1
                /\ \A i \in BatchIdx :
                      channel_buffers[r][c][i] # NoSummary =>
                          /\ channel_next_batch[r][c] <= i
                          /\ i <= channel_total_batches[r][c])
    /\ [][\A r \in Runs, c \in Channels :
            channel_total_batches[r][c] > 0 =>
                /\ channel_next_batch'[r][c] \in
                      {channel_next_batch[r][c], channel_next_batch[r][c] + 1}
                /\ channel_next_batch'[r][c] = channel_next_batch[r][c] + 1
                      <=> Len(sink'[r][c]) = Len(sink[r][c]) + 1]_vars

\* batch 1 of three was delivered; batch 3 is in the buffer and waits for batch 2
C36_Witness ==
    /\ channel_total_batches[1]["a"] = 3
    /\ channel_next_batch[1]["a"] = 2
    /\ channel_buffers[1]["a"][2] = NoSummary
    /\ channel_buffers[1]["a"][3] # NoSummary
    /\ Len(sink[1]["a"]) = 1

\* C37: a step in which send_callback raises for batch k leaves the channel's
\* next expected index at k and the summary in the buffer at k, and ends the
\* drain; a worker that enters the drain starts with the next expected index,
\* and while a batch that is due is in the buffer nothing but that batch goes
\* to the sink
C37_FailedSendStaysDue ==
    [][\A r \in Runs, c \in Channels :
          /\ \A k \in BatchIdx :
                (k \in sendRaised'[r][c] /\ k \notin sendRaised[r][c]) =>
                    /\ channel_next_batch[r][c] = k
                    /\ channel_next_batch'[r][c] = k
                    /\ channel_buffers'[r][c][k] = channel_buffers[r][c][k]
                    /\ channel_buffers'[r][c][k] # NoSummary
                    /\ \A i \in BatchIdx : taskPc'[r][c][i] # "sending"
                    /\ channel_locks'[r][c] = NoTask
          /\ \A i \in BatchIdx :
                (taskPc[r][c][i] # "sending" /\ taskPc'[r][c][i] = "sending") =>
                    taskCurrent'[r][c][i] = channel_next_batch[r][c]
          /\ \A k \in sendRaised[r][c] :
                (/\ channel_next_batch[r][c] = k
                 /\ \E i \in BatchIdx :
                       /\ taskPc[r][c][i] \in {"summarizing", "lockwait"}
                       /\ channel_buffers'[r][c][i] # channel_buffers[r][c][i])
                => \E i \in BatchIdx :
                      taskPc'[r][c][i] = "sending" /\ taskCurrent'[r][c][i] = k
          /\ Len(sink'[r][c]) > Len(sink[r][c]) =>
                sink'[r][c][Len(sink'[r][c])][1] = channel_next_batch[r][c]]_vars

\* the send of batch 1 raised; a later worker of the channel sent batch 1
\* again and then batch 2
C37_Witness ==
    /\ sendRaised[1]["a"] = {1}
    /\ SinkIndices(1, "a") = <<1, 2>>

\* C38: a batch whose summarization call has returned and whose task has
\* finished was inserted into its channel's buffer: its summary is in the
\* buffer at its index, or the index was delivered and the next expected index
\* is past it
C38_EveryResultBuffered ==
    \A r \in Runs, c \in Channels, i \in BatchIdx :
        (taskPc[r][c][i] = "done" /\ taskResult[r][c][i] # NoSummary)
        => \/ channel_buffers[r][c][i] # NoSummary
           \/ i < channel_next_batch[r][c]

\* C39: a step of send_newsletter_to_user_by_time for a user leaves the user in
\* sent_today whether the send succeeded, failed or found the recipient
\* blocked; it sends only to a user who is not in sent_today; a cycle selects
\* no user who is in sent_today; and no step of the scheduler or of a handler
\* takes a user out of sent_today
C39_FlagSetAfterEveryAttempt ==
    [][/\ \A u \in Users :
            (/\ schedPc = "send"
             /\ u \in users_to_send
             /\ \/ u \notin users_to_send'
                \/ (users_to_send = {u} /\ schedPc' # "send"))
            => /\ u \in sent_today'
               /\ (\/ received'[u]["sched"] > received[u]["sched"]
                   \/ subscribed_users' # subscribed_users)
                  => u \notin sent_today
       /\ (schedPc # "send" /\ schedPc' = "send") => users_to_send' \cap sent_today = {}
       /\ sent_today \subseteq sent_today']_vars

\* on the first date a subscriber's scheduled send failed: nothing was
\* received, the subscriber is still subscribed, the flag is set and the
\* scheduler sleeps again while the clock still shows the subscriber's hour
C39_Witness ==
    /\ Date(now) = 1
    /\ \E u \in subscribed_users :
          /\ u \in sent_today
          /\ received[u]["sched"] = 0
          /\ get_user_newsletter_time(u) = Hour(now)
    /\ schedPc = "sleep"
    /\ wake > now

\* what a scan returns when no other scan is in progress: the matching posts
\* of the channels from position i on
RECURSIVE AloneFrom(_)
AloneFrom(i) ==
    IF i > Len(standard_channels)
    THEN <<>>
    ELSE MatchingPosts(standard_channels[i], ovContent[i]) \o AloneFrom(i + 1)

\* C40: each of two scans in progress together returns what it would return
\* alone, and the daily cache holds nothing else
C40_OverlappingScansUndisturbed ==
    /\ \A s \in Paths : ovPc[s] = "returned" => ovFound[s] = AloneFrom(1)
    /\ last_scan_date # NoDate => daily_posts_cache = AloneFrom(1)

Init ==
    /\ InitPipe /\ InitNews /\ InitPartIdle /\ InitNextHourIdle
    /\ InitCall /\ InitScan /\ InitSplitIdle /\ InitOverlapIdle

\* one run of summarize_posts_in_batches
Next == PipeStep(1, MaxPosts) /\ UNCHANGED <<newsVars, funVars>>

Spec == Init /\ [][Next]_vars

\* the steps of the tasks of a run and of its gather
TaskStep(r) ==
    \/ \E c \in Channels, i \in BatchIdx : AcquireSemaphore(r, c, i)
    \/ \E c \in Channels, i \in BatchIdx, s \in Summaries : SummarizeBatch(r, c, i, s)
    \/ \E c \in Channels, i \in BatchIdx : AcquireLock(r, c, i)
    \/ \E c \in Channels, i \in BatchIdx, ok \in BOOLEAN : SendCallback(r, c, i, ok)
    \/ RunReturn(r)

\* one run in which the event loop goes on running a task that can take a
\* step, and every summarization call and every send_callback call ends
SpecLive ==
    /\ Init
    /\ [][Next]_vars
    /\ WF_vars(TaskStep(1) /\ UNCHANGED <<newsVars, funVars>>)

\* several runs in progress at the same time
NextRuns ==
    (\E r \in Runs : PipeStep(r, MaxRunPosts)) /\ UNCHANGED <<newsVars, funVars>>

SpecRuns == Init /\ [][NextRuns]_vars

\* the newsletter service: subscription handlers, scheduler and the clock
NextNews ==
    (HandlerStep \/ SchedStep \/ Tick(Horizon)) /\ UNCHANGED <<pipeVars, funVars>>

SpecNews == Init /\ [][NextNews]_vars

\* the same, with the event loop resuming the scheduler task when its sleep
\* has ended and the clock going on
SpecNewsLive ==
    /\ Init
    /\ [][NextNews]_vars
    /\ WF_vars(SchedWake /\ UNCHANGED <<pipeVars, funVars>>)
    /\ WF_vars(Tick(Horizon) /\ UNCHANGED <<pipeVars, funVars>>)

\* the same with the /scan handler
NextForce ==
    (HandlerStep \/ SchedStep \/ ForceStep \/ Tick(ForceHorizon))
    /\ UNCHANGED <<pipeVars, funVars>>

SpecForce == Init /\ [][NextForce]_vars

\* the partitioning step of summarize_posts_in_batches on every input
NextPartition ==
    (PartGroup \/ PartCut) /\ UNCHANGED <<pipeVars, newsVars, fnVars, callVars, scanVars, splitVars,
                                            overlapVars>>

InitPartitionCall ==
    /\ InitPipe /\ InitNews /\ InitPartition /\ InitNextHourIdle
    /\ InitCall /\ InitScan /\ InitSplitIdle /\ InitOverlapIdle

SpecPartition == InitPartitionCall /\ [][NextPartition]_vars

\* _find_next_active_hour on every input
NextNextHour ==
    FindNext /\ UNCHANGED <<pipeVars, newsVars, partVars, callVars, scanVars, splitVars,
                            overlapVars>>

InitNextHourCall ==
    /\ InitPipe /\ InitNews /\ InitPartIdle /\ InitNextHour
    /\ InitCall /\ InitScan /\ InitSplitIdle /\ InitOverlapIdle

SpecNextHour == InitNextHourCall /\ [][NextNextHour]_vars

\* scan_channels_for_posts, channel by channel
NextScan ==
    ScanStep /\ UNCHANGED <<pipeVars, newsVars, partVars, fnVars, callVars, splitVars,
                            overlapVars>>

SpecScan == Init /\ [][NextScan]_vars

\* split_summary_by_length on every input
NextSplit ==
    SplitCall /\ UNCHANGED <<pipeVars, newsVars, partVars, fnVars, callVars, scanVars,
                             overlapVars>>

InitSplitCall ==
    /\ InitPipe /\ InitNews /\ InitPartIdle /\ InitNextHourIdle
    /\ InitCall /\ InitScan /\ InitSplit /\ InitOverlapIdle

SpecSplit == InitSplitCall /\ [][NextSplit]_vars

\* the scheduler's scan and a forced scan in progress together
NextOverlap ==
    OverlapStep /\ UNCHANGED <<pipeVars, partVars, fnVars, callVars, scanVars, splitVars>>

InitOverlapCall ==
    /\ InitPipe /\ InitNews /\ InitPartIdle /\ InitNextHourIdle
    /\ InitCall /\ InitScan /\ InitSplitIdle /\ InitOverlap

SpecOverlap == InitOverlapCall /\ [][NextOverlap]_vars

\* the methods of the subscriber store, call by call
NextStore ==
    StoreStep /\ UNCHANGED <<pipeVars, partVars, fnVars, scanVars, splitVars, overlapVars>>

SpecStore == Init /\ [][NextStore]_vars

====
